---- MODULE Spec2Model ----
(***************************************************************************)
(* The FPS meter of the tldraw debug panel (DebugPanel.tsx, function FPS). *)
(*                                                                         *)
(* The effect of FPS() owns seven locals (TICK_LENGTH, maxKnownFps,        *)
(* cancelled, start, currentTickLength, framesInCurrentTick, isSlow), runs *)
(* loop() once synchronously and returns a cleanup that sets cancelled.    *)
(* loop() re-queues itself with requestAnimationFrame.  Time is the value  *)
(* of performance.now(), modelled in whole milliseconds.                   *)
(***************************************************************************)
EXTENDS Integers, Sequences, FiniteSets

\* ---------------------------------------------------------------- bounds
\* performance.now() never exceeds MaxTime in the explored behaviours.
MaxTime == 1142

\* Milliseconds between two consecutive frame callbacks.  The display keeps
\* one frame interval for the length of a window of the meter and may change
\* it when a new window begins.
FrameGaps == {18, 50, 51, 55, 60}

\* Milliseconds that may pass between two reads of performance.now() made
\* inside one synchronous run of the effect or of loop().
ReadGaps == {0, 1}

\* performance.now() when the effect runs.
InitialTimes == {0, 7}

\* ------------------------------------------------------ program constants
TICK_LENGTH == 250

FpsClass == "tlui-debug-panel__fps"

SlowSuffix == " tlui-debug-panel__fps__slow"

VARIABLES
    maxKnownFps,          \* let maxKnownFps
    cancelled,            \* let cancelled
    start,                \* let start
    currentTickLength,    \* let currentTickLength
    framesInCurrentTick,  \* let framesInCurrentTick
    isSlow,               \* let isSlow
    innerHTML,            \* fpsRef.current.innerHTML: <<>> or <<"FPS", n>>
    className,            \* fpsRef.current.className: <<>> or <<base, suffix>>
    clock,                \* the latest value returned by performance.now()
    rafQueue,             \* number of loop callbacks queued by requestAnimationFrame
    frameGap,             \* the display's current frame interval
    pc,                   \* "effect": the locals are initialised; "running": loop() was called
    now,                  \* the reading of performance.now() taken at `currentTickLength = ...`
    invocations,          \* number of runs of loop() that passed the cancelled check
    lateRuns,             \* number of runs of loop() that found cancelled set
    closedFrames,         \* sum of framesInCurrentTick over all paints
    paints                \* the writes to the div, in order: <<fps, isSlow>>

vars == <<maxKnownFps, cancelled, start, currentTickLength, framesInCurrentTick,
          isSlow, innerHTML, className, clock, rafQueue, frameGap, pc, now,
          invocations, lateRuns, closedFrames, paints>>

\* ---------------------------------------------------------- pure helpers

\* Math.round of the non-negative rational n/d: the nearest integer, a tie
\* going up.
RoundHalfUp(n, d) == (2 * n + d) \div (2 * d)

\* <<frames, elapsed>> for which the double expression
\* frames * (250 / elapsed) * (1000 / 250) falls just below a tie
\* (62.49999999999999 instead of 62.5), elapsed up to 1000 ms.
DoubleBelowTie == {<<19, 304>>, <<38, 608>>, <<61, 976>>, <<183, 976>>}

\* Variant: truncates instead of rounding.
ComputeFpsTruncated(frames, tick) == (frames * 1000) \div tick

\* const fps = Math.round(frames * (TICK_LENGTH / tick) * (1000 / TICK_LENGTH))
ComputeFps(frames, tick) ==
    IF <<frames, tick>> \in DoubleBelowTie
    THEN RoundHalfUp(frames * 1000, tick) - 1
    ELSE RoundHalfUp(frames * 1000, tick)

\* Variant: paints as soon as the tick length is reached.
ShouldPaintAtTickLength(tick) == tick >= TICK_LENGTH

\* if (currentTickLength > TICK_LENGTH)
ShouldPaint(tick) == tick > TICK_LENGTH

\* Variant: remembers the latest fps instead of the largest.
UpdateMaxKnownFpsLatest(max, fps) == fps

\* if (fps > maxKnownFps) { maxKnownFps = fps }
UpdateMaxKnownFps(max, fps) == IF fps > max THEN fps ELSE max

\* fps < maxKnownFps * 0.75, in integers (0.75 * max is exact in a double)
BelowSlowFps(fps, max) == 4 * fps < 3 * max

\* Variant: toggles on every slow window.
UpdateIsSlowToggle(slow, fps, max) ==
    IF BelowSlowFps(fps, max) THEN ~slow ELSE slow

\* Variant: never leaves the slow state.
UpdateIsSlowSticky(slow, fps, max) ==
    IF BelowSlowFps(fps, max) /\ ~slow THEN ~slow ELSE slow

\* Variant: a band of one fps above the threshold must be crossed to recover.
UpdateIsSlowBand(slow, fps, max) ==
    IF (BelowSlowFps(fps, max) /\ ~slow) \/ (4 * fps >= 3 * max + 4 /\ slow)
    THEN ~slow
    ELSE slow

\* if ((fps < slowFps && !isSlow) || (fps >= slowFps && isSlow)) isSlow = !isSlow
UpdateIsSlow(slow, fps, max) ==
    IF (BelowSlowFps(fps, max) /\ ~slow) \/ (~BelowSlowFps(fps, max) /\ slow)
    THEN ~slow
    ELSE slow

\* `tlui-debug-panel__fps` + (isSlow ? ` tlui-debug-panel__fps__slow` : ``)
ClassNameOf(slow) == <<FpsClass, IF slow THEN SlowSuffix ELSE "">>

\* `FPS ${fps.toString()}`
TextOf(fps) == <<"FPS", fps>>

\* Variant: reuses the reading taken for the tick length.
ResetStartToFirstReading(oldStart, firstReading, secondReading) == firstReading

\* Variant: advances the window by exactly one tick length.
ResetStartByTickLength(oldStart, firstReading, secondReading) ==
    oldStart + TICK_LENGTH

\* start = performance.now()   (the second reading of the clock in a paint)
ResetStart(oldStart, firstReading, secondReading) == secondReading

\* Variant: loop() without the check of cancelled.
LoopNeverReturnsOnEntry(c) == FALSE

\* if (cancelled) return
LoopReturnsOnEntry(c) == c

\* Variant: queues the callback twice.
RequestAnimationFrameTwice(queue) == queue + 2

\* requestAnimationFrame(loop)
RequestAnimationFrame(queue) == queue + 1

\* ------------------------------------------------------------------ state

Init ==
    /\ maxKnownFps = 0
    /\ cancelled = FALSE
    /\ clock \in InitialTimes
    /\ start = clock
    /\ currentTickLength = 0
    /\ framesInCurrentTick = 0
    /\ isSlow = FALSE
    /\ innerHTML = <<>>
    /\ className = <<>>
    /\ rafQueue = 0
    /\ frameGap \in FrameGaps
    /\ pc = "effect"
    /\ now = clock
    /\ invocations = 0
    /\ lateRuns = 0
    /\ closedFrames = 0
    /\ paints = <<>>

\* One run of loop().  t is the clock when loop() is entered and read at
\* `currentTickLength = performance.now() - start`; r is the time that
\* passes until the second reading at `start = performance.now()`.
\* queue is the callback queue the run starts from.
Loop(t, r, queue) ==
    IF LoopReturnsOnEntry(cancelled)
    THEN /\ clock' = t
         /\ rafQueue' = queue
         /\ lateRuns' = lateRuns + 1
         /\ UNCHANGED <<maxKnownFps, cancelled, start, currentTickLength,
                        framesInCurrentTick, isSlow, innerHTML, className,
                        now, invocations, closedFrames, paints>>
    ELSE LET frames == framesInCurrentTick + 1
             tick == t - start
         IN  /\ invocations' = invocations + 1
             /\ now' = t
             /\ rafQueue' = RequestAnimationFrame(queue)
             /\ UNCHANGED <<cancelled, lateRuns>>
             /\ IF ShouldPaint(tick)
                THEN LET fps == ComputeFps(frames, tick)
                         max == UpdateMaxKnownFps(maxKnownFps, fps)
                         slow == UpdateIsSlow(isSlow, fps, max)
                     IN  /\ maxKnownFps' = max
                         /\ isSlow' = slow
                         /\ innerHTML' = TextOf(fps)
                         /\ className' = ClassNameOf(slow)
                         /\ currentTickLength' = tick - TICK_LENGTH
                         /\ framesInCurrentTick' = 0
                         /\ clock' = t + r
                         /\ start' = ResetStart(start, t, t + r)
                         /\ closedFrames' = closedFrames + frames
                         /\ paints' = Append(paints, <<fps, slow>>)
                ELSE /\ framesInCurrentTick' = frames
                     /\ currentTickLength' = tick
                     /\ clock' = t
                     /\ UNCHANGED <<maxKnownFps, isSlow, innerHTML, className,
                                    start, closedFrames, paints>>

\* The effect calls loop() and returns the cleanup.
Start ==
    /\ pc = "effect"
    /\ pc' = "running"
    /\ frameGap' = frameGap
    /\ \E r1 \in ReadGaps, r2 \in ReadGaps :
          /\ clock + r1 + r2 <= MaxTime
          /\ Loop(clock + r1, r2, rafQueue)

\* The browser runs a queued callback before a repaint.
Frame ==
    /\ pc = "running"
    /\ rafQueue > 0
    /\ pc' = pc
    /\ \E d \in (IF framesInCurrentTick = 0 THEN FrameGaps ELSE {frameGap}),
          r \in ReadGaps :
          /\ clock + d + r <= MaxTime
          /\ frameGap' = d
          /\ Loop(clock + d, r, rafQueue - 1)

\* The cleanup of the effect: cancelled = true.
Stop ==
    /\ pc = "running"
    /\ ~cancelled
    /\ cancelled' = TRUE
    /\ UNCHANGED <<maxKnownFps, start, currentTickLength, framesInCurrentTick,
                   isSlow, innerHTML, className, clock, rafQueue, frameGap, pc,
                   now, invocations, lateRuns, closedFrames, paints>>

Next == Start \/ Frame \/ Stop

Spec == Init /\ [][Next]_vars

TypeOK ==
    /\ maxKnownFps \in Nat
    /\ cancelled \in BOOLEAN
    /\ start \in 0..MaxTime
    /\ currentTickLength \in Nat
    /\ framesInCurrentTick \in Nat
    /\ isSlow \in BOOLEAN
    /\ clock \in 0..MaxTime
    /\ rafQueue \in Nat
    /\ frameGap \in FrameGaps
    /\ pc \in {"effect", "running"}

\* ------------------------------------------------------------ vocabulary

\* A step in which loop() ran past the cancelled check.
RunStep == invocations' = invocations + 1

\* A run of loop() that closes a window: the elapsed time read at
\* `currentTickLength = performance.now() - start` exceeds TICK_LENGTH.
ClosureStep == RunStep /\ now' - start > TICK_LENGTH

\* A run of loop() that keeps accumulating the window.
AccumulateStep == RunStep /\ now' - start <= TICK_LENGTH

\* The fps of the k-th paint and the slow marker written with it.
FpsOf(k) == paints[k][1]

SlowOf(k) == paints[k][2]

\* The largest fps painted so far, 0 when nothing was painted.
MaxPainted ==
    IF paints = <<>> THEN 0
    ELSE CHOOSE m \in {FpsOf(k) : k \in 1..Len(paints)} :
            \A k \in 1..Len(paints) : FpsOf(k) <= m

\* ----------------------------------------------------------------- claims

C2_MaxIsRunningMax ==
    /\ [](maxKnownFps = MaxPainted)
    /\ [](paints = <<>> => maxKnownFps = 0)
    /\ [](Len(paints) = 1 => maxKnownFps = FpsOf(1))
    /\ [][maxKnownFps' >= maxKnownFps]_vars

\* A paint with an fps below an earlier one has happened.
C2_Witness ==
    /\ Len(paints) >= 3
    /\ FpsOf(2) < FpsOf(1)
    /\ FpsOf(3) > FpsOf(2)
    /\ FpsOf(3) < FpsOf(1)

\* C3: at a window closure, with the threshold taken from the updated
\* maxKnownFps, isSlow turns true only if fps is below the threshold, turns
\* false only if fps is at or above it, and keeps its value when it is false
\* with fps at or above the threshold or true with fps below it.
C3_SlowUpdate ==
    [][ClosureStep =>
         LET fps == innerHTML'[2]
             below == BelowSlowFps(fps, maxKnownFps')
         IN  /\ (~isSlow /\ isSlow') => below
             /\ (isSlow /\ ~isSlow') => ~below
             /\ (~isSlow /\ ~below) => ~isSlow'
             /\ (isSlow /\ below) => isSlow']_vars

\* All four cases have happened: false kept, false to true, true kept,
\* true to false.
C3_Witness ==
    \E i \in 1..Len(paints) : \E j \in 1..Len(paints) :
        /\ i + 1 <= Len(paints)
        /\ j + 1 <= Len(paints)
        /\ SlowOf(i) /\ SlowOf(i + 1)
        /\ SlowOf(j) /\ ~SlowOf(j + 1)
        /\ ~SlowOf(1)
        /\ \E k \in 1..Len(paints) :
              k + 1 <= Len(paints) /\ ~SlowOf(k) /\ SlowOf(k + 1)

\* C4 as stated: a window closure leaves framesInCurrentTick at 0 and start
\* at the reading of the clock that was used for the elapsed time.
C4_StartIsElapsedReading ==
    [][ClosureStep => framesInCurrentTick' = 0 /\ start' = now']_vars

\* C4 amended: a window closure leaves framesInCurrentTick at 0 and start at
\* a second reading of the clock, taken after the paint, which is not
\* earlier than the reading used for the elapsed time.
C4_StartIsSecondReading ==
    [][ClosureStep =>
         /\ framesInCurrentTick' = 0
         /\ start' = clock'
         /\ start' >= now']_vars

\* A closure whose second reading of the clock was later than its first.
C4_Witness ==
    /\ paints # <<>>
    /\ framesInCurrentTick = 0
    /\ start = clock
    /\ start > now

\* C5: from a fresh monitor, a first window of 15 frames closing at about
\* 250 ms paints fps 60 with maxKnownFps 60, threshold 45 and isSlow false;
\* a following window of 5 frames closing at about 250 ms paints fps 20 and
\* turns isSlow true; a following window of 13 or 14 frames closing at about
\* 250 ms paints an fps of about 55 and turns isSlow false again, with
\* maxKnownFps still 60.
C5_Scenario ==
    [][ClosureStep =>
         LET frames == framesInCurrentTick + 1
             elapsed == now' - start
             fps == innerHTML'[2]
         IN  /\ (paints = <<>> /\ frames = 15 /\ elapsed \in 251..252) =>
                   /\ paints' = << <<60, FALSE>> >>
                   /\ maxKnownFps' = 60
                   /\ 4 * 45 = 3 * maxKnownFps'
                   /\ ~isSlow'
             /\ (paints = << <<60, FALSE>> >> /\ frames = 5
                    /\ elapsed \in 251..255) =>
                   /\ paints' = << <<60, FALSE>>, <<20, TRUE>> >>
                   /\ maxKnownFps' = 60
                   /\ isSlow'
             /\ (paints = << <<60, FALSE>>, <<20, TRUE>> >>
                    /\ frames \in 13..14 /\ elapsed \in 251..255) =>
                   /\ fps \in 51..56
                   /\ paints' = Append(paints, <<fps, FALSE>>)
                   /\ maxKnownFps' = 60
                   /\ ~isSlow']_vars

\* The three windows of the scenario have been painted.
C5_Witness ==
    /\ paints = << <<60, FALSE>>, <<20, TRUE>>, <<56, FALSE>> >>
    /\ maxKnownFps = 60
    /\ closedFrames = 15 + 5 + 14
    /\ ~isSlow

\* fps is exactly at the threshold of the current maxKnownFps, or one below.
AtThreshold(fps) == 4 * fps = 3 * maxKnownFps

JustBelowThreshold(fps) == 4 * (fps + 1) = 3 * maxKnownFps

\* Paints k, k+1, k+2 alternate between just below and exactly the
\* threshold, none of them reaching maxKnownFps.
Alternating(k) ==
    /\ FpsOf(k) = FpsOf(k + 2)
    /\ \/ JustBelowThreshold(FpsOf(k)) /\ AtThreshold(FpsOf(k + 1))
       \/ AtThreshold(FpsOf(k)) /\ JustBelowThreshold(FpsOf(k + 1))

\* C6 as stated: over consecutive window closures whose fps alternates
\* between just below the threshold and exactly the threshold, with
\* maxKnownFps unchanged, isSlow does not flip on every window.
C6_NoFlipOnEveryWindow ==
    \A k \in 1..Len(paints) :
        (k + 2 <= Len(paints) /\ Alternating(k)) =>
            ~(SlowOf(k) # SlowOf(k + 1) /\ SlowOf(k + 1) # SlowOf(k + 2))

\* C6 amended: there is no band.  At a window closure that leaves
\* maxKnownFps unchanged, isSlow changes exactly when the new fps lies on the
\* other side of the single value 0.75 * maxKnownFps from the fps painted
\* before, so fps alternating between just below and exactly the threshold
\* flips isSlow on every window.
C6_SingleThreshold ==
    [][(ClosureStep /\ paints # <<>> /\ maxKnownFps' = maxKnownFps) =>
         ((isSlow' # isSlow) <=>
            (BelowSlowFps(innerHTML'[2], maxKnownFps)
               # BelowSlowFps(innerHTML[2], maxKnownFps)))]_vars

\* Three consecutive windows alternating around the threshold, each of which
\* flipped isSlow.
C6_Witness ==
    \E k \in 1..Len(paints) :
        /\ k + 2 <= Len(paints)
        /\ Alternating(k)
        /\ SlowOf(k) # SlowOf(k + 1)
        /\ SlowOf(k + 1) # SlowOf(k + 2)

\* C7 as stated: start never decreases and a window closure carries the
\* overshoot into the next window, start becoming the closing reading minus
\* the amount by which the elapsed time exceeded TICK_LENGTH.
C7_OvershootCarried ==
    [][/\ start' >= start
       /\ ClosureStep =>
            start' = now' - ((now' - start) - TICK_LENGTH)]_vars

\* C7 amended: start never decreases and a window closure resets it to the
\* current time, more than TICK_LENGTH after the old start; the overshoot is
\* subtracted only from currentTickLength, which the next run of loop()
\* overwrites with the time elapsed since the new start.
C7_ResetToCurrentTime ==
    [][/\ start' >= start
       /\ ClosureStep =>
            /\ start' = clock'
            /\ start' > start + TICK_LENGTH
            /\ currentTickLength' = (now' - start) - TICK_LENGTH
       /\ AccumulateStep => currentTickLength' = now' - start]_vars

\* A closure with a positive overshoot has been followed by a run of loop()
\* whose tick length is measured from the reset start.
C7_Witness ==
    /\ Len(paints) >= 2
    /\ framesInCurrentTick = 1
    /\ start > TICK_LENGTH
    /\ currentTickLength = frameGap
    /\ currentTickLength = now - start

\* C8: a run of loop() with elapsed time at most TICK_LENGTH adds one to
\* framesInCurrentTick and leaves start, maxKnownFps, isSlow, the text and
\* the class name alone; framesInCurrentTick goes back to 0 only in a run
\* that closes a window; the frames of the closed windows plus
\* framesInCurrentTick equal the number of runs that passed the cancelled
\* check.
C8_FrameCounting ==
    /\ [](closedFrames + framesInCurrentTick = invocations)
    /\ [][/\ AccumulateStep =>
               /\ framesInCurrentTick' = framesInCurrentTick + 1
               /\ UNCHANGED <<start, maxKnownFps, isSlow, innerHTML,
                              className, paints>>
          /\ framesInCurrentTick' < framesInCurrentTick => ClosureStep
          /\ ClosureStep => closedFrames' > closedFrames]_vars

\* A run of loop() at exactly TICK_LENGTH has kept accumulating, after an
\* earlier window was closed.
C8_Witness ==
    /\ currentTickLength = TICK_LENGTH
    /\ now - start = TICK_LENGTH
    /\ framesInCurrentTick > 0
    /\ closedFrames > 0

\* C9: after every paint isSlow equals (fps < 0.75 * maxKnownFps) for the
\* painted fps and the updated maxKnownFps, whatever it was before; it is
\* false after the first paint; the class name carries the slow suffix
\* exactly when the painted fps is below 0.75 of maxKnownFps.
C9_SlowIsBelowThreshold ==
    paints # <<>> =>
        /\ innerHTML = TextOf(FpsOf(Len(paints)))
        /\ isSlow = BelowSlowFps(innerHTML[2], maxKnownFps)
        /\ isSlow = SlowOf(Len(paints))
        /\ className = <<FpsClass, SlowSuffix>> <=>
              BelowSlowFps(innerHTML[2], maxKnownFps)
        /\ className \in {<<FpsClass, SlowSuffix>>, <<FpsClass, "">>}
        /\ ~SlowOf(1)

\* A slow paint followed by a paint that is not slow, and the reverse.
C9_Witness ==
    /\ Len(paints) >= 3
    /\ SlowOf(2)
    /\ ~SlowOf(3)
    /\ className = <<FpsClass, "">>

\* C10: the effect runs loop() once synchronously; at most one callback is
\* queued in any state; while cancelled is not set a callback is queued
\* whenever loop() is not running; after the cleanup the queued callback
\* runs at most once and the queue stays empty from then on.
C10_OnePendingCallback ==
    /\ [](rafQueue <= 1)
    /\ []((pc = "running" /\ ~cancelled) => rafQueue = 1)
    /\ [](pc = "effect" => (rafQueue = 0 /\ invocations = 0))
    /\ [](lateRuns <= 1 /\ (lateRuns = 1 => (cancelled /\ rafQueue = 0)))
    /\ [][(pc = "effect" /\ pc' = "running") =>
             (invocations' = 1 /\ rafQueue' = 1)]_vars
    /\ [][(cancelled /\ rafQueue = 0) => rafQueue' = 0]_vars

\* The cleanup ran with a callback queued and that callback has run.
C10_Witness ==
    /\ cancelled
    /\ lateRuns = 1
    /\ rafQueue = 0
    /\ invocations >= 2
====
